---- MODULE Spec2Model ----
(***************************************************************************)
(* A model of the domain-matching analysis pipeline of certstream-analytics *)
(* (certstream_analytics/analysers): the substring matcher                  *)
(* AhoCorasickDomainMatching, the WordSegmentation stage, the               *)
(* BulkDomainMarker and the meta-analyser DomainMatching, run over one      *)
(* certificate record whose ledger is record['analysers'].                  *)
(*                                                                          *)
(* A Python str is a sequence of characters, each character a one-letter    *)
(* string; a Python dict is the sequence of its <<key, value>> items in     *)
(* insertion order, keys unique.                                            *)
(***************************************************************************)
EXTENDS Integers, Sequences, FiniteSets, TLC

VARIABLES
    domains_file, \* the lines of the domains file, the list the matcher is built from
    automaton,    \* AhoCorasickDomainMatching.automaton: label -> index
    domains,      \* AhoCorasickDomainMatching.domains: dict label -> source domain
    threshold,    \* BulkDomainMarker.threshold
    record,       \* the certificate record handed from stage to stage
    raised,       \* whether the last call of an analyser or a sink raised an exception
    last,         \* history: the analyser that ran last and the record it was given
    transformer,  \* CertstreamAnalytics.transformer
    pipeline,     \* CertstreamAnalytics.analysers, the analysers registered
    stopped,      \* CertstreamAnalytics.stopped
    thread,       \* CertstreamAnalytics.thread, the state of the worker thread
    caller,       \* where the thread that calls start() and stop() is
    pc,           \* where the worker is in _callback
    calls,        \* history: the calls _callback has made for the current event
    events,       \* the number of feed events delivered so far
    message,      \* history: the feed event _callback was last entered for
    fhandler,     \* FileReporter.fhandler: the text written to the handle and not yet in the file
    report_file,  \* the text of the file at FileReporter's path
    reports       \* history: the reports FileReporter.publish was called with

\* the variables of the CertstreamAnalytics engine
engine ==
    <<transformer, pipeline, stopped, thread, caller, pc, calls, events, message>>

\* the variables of a FileReporter and its file
sink == <<fhandler, report_file, reports>>

vars ==
    <<domains_file, automaton, domains, threshold, record, raised, last, engine,
      sink>>

-----------------------------------------------------------------------------
(* Bounds of the model *)

MaxSans == 2          \* longest SAN list of a record
MaxLedger == 3        \* ledger entries after which only the meta-analyser is run
SmallThreshold == 2   \* the BulkDomainMarker threshold the records can reach

-----------------------------------------------------------------------------
(* Python str and dict primitives *)

Dot == "."

Max(S) == CHOOSE x \in S : \A y \in S : y <= x
Min(S) == CHOOSE x \in S : \A y \in S : x <= y

Range(s) == {s[i] : i \in 1..Len(s)}

\* s.startswith(p)
StartsWith(s, p) == Len(p) <= Len(s) /\ SubSeq(s, 1, Len(p)) = p

\* p in s, for two str
Contains(s, p) ==
    \E i \in 0..(Len(s) - Len(p)) : SubSeq(s, i + 1, i + Len(p)) = p

\* re.sub('^' + p, '', s) for a literal prefix p
StripPrefix(s, p) ==
    IF StartsWith(s, p) THEN SubSeq(s, Len(p) + 1, Len(s)) ELSE s

\* s.split('.'): the pieces between the dots, empty pieces kept
RECURSIVE Split(_)
Split(s) ==
    IF \A i \in 1..Len(s) : s[i] # Dot
    THEN <<s>>
    ELSE LET i == Min({j \in 1..Len(s) : s[j] = Dot})
         IN  <<SubSeq(s, 1, i - 1)>> \o Split(SubSeq(s, i + 1, Len(s)))

\* '.'.join(parts)
RECURSIVE Join(_)
Join(parts) ==
    IF parts = <<>> THEN <<>>
    ELSE IF Len(parts) = 1 THEN parts[1]
    ELSE parts[1] \o <<Dot>> \o Join(Tail(parts))

DictKeys(d) == {d[i][1] : i \in 1..Len(d)}
DictHas(d, k) == k \in DictKeys(d)
DictGet(d, k) == d[CHOOSE i \in 1..Len(d) : d[i][1] = k][2]

\* key in record, for a record that may lack the key
Has(rec, key) == key \in DOMAIN rec

\* d[k] = v
DictSet(d, k, v) ==
    IF DictHas(d, k)
    THEN [i \in 1..Len(d) |-> IF d[i][1] = k THEN <<k, v>> ELSE d[i]]
    ELSE Append(d, <<k, v>>)

-----------------------------------------------------------------------------
(* Words and host names the model is run on *)

W_com == <<"c", "o", "m">>
W_io == <<"i", "o">>
W_ted == <<"t", "e", "d">>
W_noted == <<"n", "o", "t", "e", "d">>
W_evil == <<"e", "v", "i", "l">>
W_my == <<"m", "y">>
W_go == <<"g", "o">>
W_www == <<"w", "w", "w">>
W_web == <<"w", "e", "b">>
W_cpanel == <<"c", "p", "a", "n", "e", "l">>
W_autodiscover == <<"a", "u", "t", "o", "d", "i", "s", "c", "o", "v", "e", "r">>
W_app == <<"a", "p", "p">>
W_inc == <<"i", "n", "c">>
W_box == <<"b", "o", "x">>
W_health == <<"h", "e", "a", "l", "t", "h">>
W_home == <<"h", "o", "m", "e">>
W_space == <<"s", "p", "a", "c", "e">>
W_cars == <<"c", "a", "r", "s">>
W_nature == <<"n", "a", "t", "u", "r", "e">>
\* a label of one letter outside a-z0-9 (a decoded IDNA label)
W_idna == <<"U+0436">>
W_star == <<"*">>
W_teddy == <<"t", "e", "d", "d", "y">>

\* the reference domains
D_ted_com == Join(<<W_ted, W_com>>)
D_ted_io == Join(<<W_ted, W_io>>)
D_noted_io == Join(<<W_noted, W_io>>)
D_go_com == Join(<<W_go, W_com>>)
D_www_com == Join(<<W_www, W_com>>)
D_web_io == Join(<<W_web, W_io>>)
D_evil_io == Join(<<W_evil, W_io>>)

\* the lists of domains AhoCorasickDomainMatching is constructed with
DomainLists ==
    { <<D_ted_com, D_ted_io>>,
      <<D_ted_com, D_noted_io, D_go_com, D_www_com, D_web_io>> }

\* the SAN host names
H_my_ted_com_evil_io == Join(<<W_my, W_ted, W_com, W_evil, W_io>>)
H_ted_com_evil_io == Join(<<W_ted, W_com, W_evil, W_io>>)
H_noted_evil_io == Join(<<W_noted, W_evil, W_io>>)
H_my_ted_com == Join(<<W_my, W_ted, W_com>>)
H_go_idna_io == Join(<<W_go, W_idna, W_io>>)
H_www == W_www
H_star_cpanel_ted_evil_io == Join(<<W_star, W_cpanel, W_ted, W_evil, W_io>>)
H_myapp_ted_com_evil_io == Join(<<W_my \o W_app, W_ted, W_com, W_evil, W_io>>)
H_star_home_ted_io == Join(<<W_star, W_home, W_ted, W_io>>)
H_my_teddy_io == Join(<<W_my, W_teddy, W_io>>)

Hosts ==
    { H_my_ted_com_evil_io, H_ted_com_evil_io, H_noted_evil_io, H_my_ted_com,
      H_go_idna_io, H_www, H_star_cpanel_ted_evil_io }

\* the SAN lists of the records: every host name at most once
SanLists ==
    {sans \in UNION {[1..n -> Hosts] : n \in 0..MaxSans} :
        \A i, j \in 1..Len(sans) : sans[i] = sans[j] => i = j}

-----------------------------------------------------------------------------
(* tldextract.extract: (subdomain, domain, suffix) of a host name *)

\* the public suffix list, reduced to the suffixes of the host names
PublicSuffixes == {W_com, W_io, W_app}

\* TLDExtractor.suffix_index: the first label from which the rest is a public
\* suffix, or one past the last label when there is none
SuffixIndex(labels) ==
    LET hits == {i \in 1..Len(labels) :
                    Join(SubSeq(labels, i, Len(labels))) \in PublicSuffixes}
    IN  IF hits = {} THEN Len(labels) + 1 ELSE Min(hits)

Extract(host) ==
    LET labels == Split(host)
        i == SuffixIndex(labels)
    IN  << IF i > 1 THEN Join(SubSeq(labels, 1, i - 2)) ELSE <<>>,
           IF i > 1 THEN labels[i - 1] ELSE <<>>,
           Join(SubSeq(labels, i, Len(labels))) >>

-----------------------------------------------------------------------------
(* wordsegment.segment: the words of a token, in reading order *)

Alphanumerics ==
    { "a", "b", "c", "d", "e", "f", "g", "h", "i", "j", "k", "l", "m", "n",
      "o", "p", "q", "r", "s", "t", "u", "v", "w", "x", "y", "z",
      "0", "1", "2", "3", "4", "5", "6", "7", "8", "9" }

\* the words the segmenter's frequency table knows
Dictionary ==
    { W_com, W_io, W_ted, W_noted, W_evil, W_my, W_go, W_www, W_web, W_cpanel,
      W_app, W_inc, W_box, W_home, W_teddy }

\* wordsegment.clean: only the letters a-z and the digits are kept
Clean(token) == SelectSeq(token, LAMBDA c : c \in Alphanumerics)

\* length of the first word of a clean text: the longest known word it starts
\* with, else the unknown letters up to the next known word
FirstWordLen(s) ==
    LET known == {n \in 1..Len(s) : SubSeq(s, 1, n) \in Dictionary}
        before == {n \in 1..Len(s) :
                     \/ n = Len(s)
                     \/ \E w \in Dictionary : StartsWith(SubSeq(s, n + 1, Len(s)), w)}
    IN  IF known # {} THEN Max(known) ELSE Min(before)

RECURSIVE Divide(_)
Divide(s) ==
    IF s = <<>> THEN <<>>
    ELSE LET n == FirstWordLen(s)
         IN  <<SubSeq(s, 1, n)>> \o Divide(SubSeq(s, n + 1, Len(s)))

Segment(token) == Divide(Clean(token))

-----------------------------------------------------------------------------
(* AhoCorasickDomainMatching *)

MIN_MATCHING_LENGTH == 3

EXCLUDED_DOMAINS == {W_www, W_web}

\* the alternatives of the regular expression ^(autodiscover\.|cpanel\.)
IGNORED_PARTS == << W_autodiscover \o <<Dot>>, W_cpanel \o <<Dot>> >>

AnalyserNames ==
    [aho |-> "AhoCorasickDomainMatching", ws |-> "WordSegmentation",
     bulk |-> "BulkDomainMarker", dm |-> "DomainMatching"]

\* the stoplist cut down to its first entry
IsExcludedMutant(label) == label = W_www

IsExcluded(label) == label \in EXCLUDED_DOMAINS

\* the loop of __init__ from position index (0-based) on: the automaton's
\* words with their values (index, label), and the dict self.domains
RECURSIVE AddDomains(_, _, _, _)
AddDomains(ds, index, words, dict) ==
    IF index >= Len(ds) THEN [automaton |-> words, domains |-> dict]
    ELSE LET domain == ds[index + 1]
             ext == Extract(domain)
         IN  IF IsExcluded(ext[2])
             THEN AddDomains(ds, index + 1, words, dict)
             ELSE AddDomains(ds, index + 1,
                             DictSet(words, ext[2], <<index, ext[2]>>),
                             DictSet(dict, ext[2], domain))

AhoCorasickDomainMatchingInit(ds) == AddDomains(ds, 0, <<>>, <<>>)

\* the words of a set of words of distinct lengths, longest first
RECURSIVE LongestFirst(_)
LongestFirst(S) ==
    IF S = {} THEN <<>>
    ELSE LET w == CHOOSE x \in S : \A y \in S : Len(y) <= Len(x)
         IN  <<w>> \o LongestFirst(S \ {w})

\* automaton.iter(text): an item (end, value) for every occurrence of a word,
\* by end position, and at one end position the longer word first
RECURSIVE IterFrom(_, _)
IterFrom(text, end) ==
    IF end > Len(text) THEN <<>>
    ELSE LET here == {w \in DictKeys(automaton) :
                         /\ Len(w) <= end
                         /\ SubSeq(text, end - Len(w) + 1, end) = w}
             items == LongestFirst(here)
         IN  [i \in 1..Len(items) |-> <<end - 1, DictGet(automaton, items[i])>>]
                 \o IterFrom(text, end + 1)

Iter(text) == IterFrom(text, 1)

\* the length filter left out
LongEnoughMutant(label) == TRUE

LongEnough(label) == Len(label) >= MIN_MATCHING_LENGTH

\* [m[1][1] for m in self.automaton.iter(text) if len(m[1][1]) >= MIN_MATCHING_LENGTH]
Matches(text) ==
    LET found == Iter(text)
        labels == [i \in 1..Len(found) |-> found[i][2][2]]
    IN  SelectSeq(labels, LongEnough)

\* list.sort(key=len): a stable sort by length
RECURSIVE SortByLen(_)
SortByLen(ms) ==
    IF ms = <<>> THEN <<>>
    ELSE LET rest == SortByLen(SubSeq(ms, 1, Len(ms) - 1))
             x == ms[Len(ms)]
             n == Cardinality({i \in 1..Len(rest) : Len(rest[i]) <= Len(x)})
         IN  SubSeq(rest, 1, n) \o <<x>> \o SubSeq(rest, n + 1, Len(rest))

\* the shortest match taken instead of the longest
BestMatchMutant(ms) == SortByLen(ms)[1]

\* matches.sort(key=len); match = matches[-1]
BestMatch(ms) == SortByLen(ms)[Len(ms)]

\* re.sub(IGNORED_PARTS, '', domain)
StripIgnored(domain) ==
    IF StartsWith(domain, IGNORED_PARTS[1]) THEN StripPrefix(domain, IGNORED_PARTS[1])
    ELSE StripPrefix(domain, IGNORED_PARTS[2])

\* the domain as the matcher looks at it: wildcard and FP-prone part removed
Stripped(domain) == StripIgnored(StripPrefix(domain, <<"*", Dot>>))

\* '.'.join(ext[:2])
MatchedText(domain) ==
    LET ext == Extract(domain) IN Join(<<ext[1], ext[2]>>)

\* the loop over record['all_domains'], left at the first domain that matches
RECURSIVE Scan(_)
Scan(all_domains) ==
    IF all_domains = <<>> THEN <<>>
    ELSE LET domain == Stripped(Head(all_domains))
             matches == Matches(MatchedText(domain))
         IN  IF matches # <<>>
             THEN LET match == BestMatch(matches)
                  IN  DictSet(<<>>, domain,
                              IF DictHas(domains, match)
                              THEN <<DictGet(domains, match)>>
                              ELSE match)
             ELSE Scan(Tail(all_domains))

\* an entry equal to one the ledger holds is not appended again
AppendEntryMutant(rec, name, output) ==
    IF \E i \in 1..Len(rec.analysers) :
          rec.analysers[i].analyser = name /\ rec.analysers[i].output = output
    THEN rec
    ELSE [rec EXCEPT !.has_analysers = TRUE,
                     !.analysers = Append(rec.analysers,
                                          [analyser |-> name, output |-> output])]

\* record['analysers'].append({'analyser': name, 'output': output})
AppendEntry(rec, name, output) ==
    [rec EXCEPT !.has_analysers = TRUE,
                !.analysers = Append(rec.analysers, [analyser |-> name, output |-> output])]

\* the ledger created anew whether or not the record has one
WithLedgerMutant(rec) == [rec EXCEPT !.has_analysers = TRUE, !.analysers = <<>>]

\* if 'analysers' not in record: record['analysers'] = []
WithLedger(rec) == [rec EXCEPT !.has_analysers = TRUE]

\* record['all_domains'] of a record without that key raises KeyError; the
\* three analysers that read it have created the ledger by then
LacksDomains(rec) == ~Has(rec, "all_domains")

\* the entry appended whether or not anything matched
AhoCorasickDomainMatchingRunMutant(rec) ==
    AppendEntry(rec, AnalyserNames.aho, Scan(rec.all_domains))

AhoCorasickDomainMatchingRun(rec) ==
    LET results == Scan(rec.all_domains)
    IN  IF results # <<>>
        THEN AppendEntry(rec, AnalyserNames.aho, results)
        ELSE WithLedger(rec)

-----------------------------------------------------------------------------
(* WordSegmentation *)

STOPWORDS ==
    {W_app, W_inc, W_box, W_health, W_home, W_space, W_cars, W_nature}

\* the stop-words left in
NotStopwordMutant(w) == TRUE

NotStopword(w) == w \notin STOPWORDS

\* words.extend([w for w in wordsegment.segment(token) if w not in STOPWORDS])
TokenWords(token) == SelectSeq(Segment(token), NotStopword)

RECURSIVE WordsOfTokens(_)
WordsOfTokens(tokens) ==
    IF tokens = <<>> THEN <<>>
    ELSE TokenWords(Head(tokens)) \o WordsOfTokens(Tail(tokens))

\* for part in ext[:]: for token in part.split('.'): ...
RECURSIVE WordsOfParts(_)
WordsOfParts(parts) ==
    IF parts = <<>> THEN <<>>
    ELSE WordsOfTokens(Split(Head(parts))) \o WordsOfParts(Tail(parts))

RECURSIVE SegmentAll(_, _)
SegmentAll(all_domains, results) ==
    IF all_domains = <<>> THEN results
    ELSE LET domain == StripPrefix(Head(all_domains), <<"*", Dot>>)
             words == WordsOfParts(Extract(domain))
         IN  SegmentAll(Tail(all_domains), DictSet(results, domain, words))

WordSegmentationRun(rec) ==
    LET results == SegmentAll(rec.all_domains, <<>>)
    IN  IF results # <<>>
        THEN AppendEntry(rec, AnalyserNames.ws, results)
        ELSE WithLedger(rec)

-----------------------------------------------------------------------------
(* BulkDomainMarker *)

BULK_DOMAIN_THRESHOLD == 15

\* more SANs than the threshold asked for
IsBulkedMutant(all_domains) == Len(all_domains) > threshold

IsBulked(all_domains) == Len(all_domains) >= threshold

BulkDomainMarkerRun(rec) ==
    AppendEntry(rec, AnalyserNames.bulk, IsBulked(rec.all_domains))

-----------------------------------------------------------------------------
(* DomainMatching *)

\* DomainMatching.__init__: self.include_tld, and self.option, which is set for
\* DomainMatchingOption.SUBSET_MATCH and list for DomainMatchingOption.ORDER_MATCH
DomainMatchingInit(include_tld, option) ==
    [include_tld |-> include_tld, option |-> option]

\* the DomainMatching objects: one for each include_tld and each option
DomainMatchings ==
    {DomainMatchingInit(t, o) : t \in BOOLEAN, o \in {"set", "list"}}

\* the loop over record['analysers']: the last output of each of the three
\* analysers, a true BulkDomainMarker output passed over
RECURSIVE Collect(_, _)
Collect(entries, analysers) ==
    IF entries = <<>> THEN analysers
    ELSE LET analyser == Head(entries)
             name == analyser.analyser
         IN  IF name \notin {AnalyserNames.aho, AnalyserNames.ws, AnalyserNames.bulk}
             THEN Collect(Tail(entries), analysers)
             ELSE IF name = AnalyserNames.bulk /\ analyser.output
             THEN Collect(Tail(entries), analysers)
             ELSE Collect(Tail(entries), DictSet(analysers, name, analyser.output))

\* the whole extraction compared, subdomain included
IsLegitimateMutant(ext, match_ext) == ext = match_ext

\* ext[1:] == match_ext[1:]
IsLegitimate(ext, match_ext) ==
    <<ext[2], ext[3]>> = <<match_ext[2], match_ext[3]>>

\* tmp.extend(wordsegment.segment(token)) for every token of every part
RECURSIVE SegmentTokens(_)
SegmentTokens(tokens) ==
    IF tokens = <<>> THEN <<>>
    ELSE Segment(Head(tokens)) \o SegmentTokens(Tail(tokens))

RECURSIVE SegmentParts(_)
SegmentParts(parts) ==
    IF parts = <<>> THEN <<>>
    ELSE SegmentTokens(Split(Head(parts))) \o SegmentParts(Tail(parts))

\* ext[:] if self.include_tld else ext[:2]
LegitParts(self, ext) == IF self.include_tld THEN ext ELSE SubSeq(ext, 1, 2)

\* the containment the wrong way round
IsSubsetMatchMutant(tmp, words) == Range(words) \subseteq Range(tmp)

\* legit.issubset(phish) on set(tmp) and set(segmentation_output[match])
IsSubsetMatch(tmp, words) == Range(tmp) \subseteq Range(words)

\* the leading dot left out of the needle
IsOrderMatchMutant(tmp, words) == Contains(Join(words), Join(tmp))

\* '.{}'.format('.'.join(legit)) in '.'.join(phish)
IsOrderMatch(tmp, words) == Contains(Join(words), <<Dot>> \o Join(tmp))

IsMatch(self, tmp, words) ==
    \/ self.option = "set" /\ IsSubsetMatch(tmp, words)
    \/ self.option = "list" /\ IsOrderMatch(tmp, words)

\* the list of the match overwritten, only the last domain kept
RetainMutant(results, match, domain) == DictSet(results, match, <<domain>>)

\* if match not in results: results[match] = []; results[match].append(domain)
Retain(results, match, domain) ==
    DictSet(results, match,
            IF DictHas(results, match)
            THEN Append(DictGet(results, match), domain)
            ELSE <<domain>>)

\* the loop over the domains reported for one match
RECURSIVE MatchDomains(_, _, _, _, _)
MatchDomains(self, match, ds, words, results) ==
    IF ds = <<>> THEN results
    ELSE LET domain == Head(ds)
             ext == Extract(domain)
         IN  IF IsLegitimate(ext, Extract(match))
             THEN MatchDomains(self, match, Tail(ds), words, results)
             ELSE IF IsMatch(self, SegmentParts(LegitParts(self, ext)), words)
             THEN MatchDomains(self, match, Tail(ds), words,
                               Retain(results, match, domain))
             ELSE MatchDomains(self, match, Tail(ds), words, results)

\* DomainMatching._match: the loop over ahocorasick_output.items()
RECURSIVE Match(_, _, _, _)
Match(self, ahocorasick_output, segmentation_output, results) ==
    IF ahocorasick_output = <<>> THEN results
    ELSE LET match == Head(ahocorasick_output)[1]
             ds == Head(ahocorasick_output)[2]
         IN  IF ~DictHas(segmentation_output, match)
             THEN Match(self, Tail(ahocorasick_output), segmentation_output, results)
             ELSE Match(self, Tail(ahocorasick_output), segmentation_output,
                        MatchDomains(self, match, ds, DictGet(segmentation_output, match),
                                     results))

\* a ledger entry at which the loop over record['analysers'] raises KeyError:
\* analyser['analyser'] or, for one of the three names, analyser['output']
LacksKey(entry) ==
    \/ ~Has(entry, "analyser")
    \/ /\ entry.analyser \in {AnalyserNames.aho, AnalyserNames.ws, AnalyserNames.bulk}
       /\ ~Has(entry, "output")

DomainMatchingRaises(rec) ==
    /\ rec.has_analysers
    /\ \E i \in 1..Len(rec.analysers) : LacksKey(rec.analysers[i])

NoOutputs ==
    << <<AnalyserNames.aho, <<>> >>, <<AnalyserNames.ws, <<>> >>,
       <<AnalyserNames.bulk, <<>> >> >>

\* DomainMatching.run on a record that has a ledger
Correlate(self, rec) ==
    LET analysers == Collect(rec.analysers, NoOutputs)
        aho == DictGet(analysers, AnalyserNames.aho)
        ws == DictGet(analysers, AnalyserNames.ws)
    IN  IF aho = <<>> \/ ws = <<>> THEN rec
        ELSE LET results == Match(self, aho, ws, <<>>)
             IN  IF results # <<>>
                 THEN AppendEntry(rec, AnalyserNames.dm, results)
                 ELSE rec

\* the ledger created when the record has none, as the other analysers do
DomainMatchingRunMutant(self, rec) ==
    IF ~rec.has_analysers THEN WithLedger(rec) ELSE Correlate(self, rec)

DomainMatchingRun(self, rec) ==
    IF ~rec.has_analysers THEN rec ELSE Correlate(self, rec)

-----------------------------------------------------------------------------
(* The pipeline over one record: the caller runs the stages in any order *)

Records ==
    {[all_domains |-> sans, analysers |-> <<>>, has_analysers |-> h] :
        sans \in SanLists, h \in BOOLEAN}

\* the analyser objects of the pipeline
Analyser(name) == [name |-> name, include_tld |-> FALSE, option |-> "none"]
MetaAnalyser(self) ==
    [name |-> AnalyserNames.dm, include_tld |-> self.include_tld, option |-> self.option]

\* the worker out of _callback
Idle == [at |-> "idle", i |-> 0]

\* the analysers run by hand, without an engine: CertstreamAnalytics.__init__
\* with no argument
\* no FileReporter has been constructed
NoFileReporter ==
    /\ fhandler = [kind |-> "none"]
    /\ report_file = <<>>
    /\ reports = <<>>

NoEngine ==
    /\ transformer = "None"
    /\ pipeline = <<>>
    /\ stopped = TRUE
    /\ thread = "None"
    /\ caller = "constructed"
    /\ pc = Idle
    /\ calls = <<>>
    /\ events = 0
    /\ message = [message_type |-> "none"]

Init ==
    /\ domains_file \in DomainLists
    /\ automaton = AhoCorasickDomainMatchingInit(domains_file).automaton
    /\ domains = AhoCorasickDomainMatchingInit(domains_file).domains
    /\ threshold = SmallThreshold
    /\ record \in Records
    /\ raised = FALSE
    /\ last = [analyser |-> Analyser("none"), record |-> record]
    /\ NoEngine
    /\ NoFileReporter

\* the caller runs each of the three analysers of the SANs at most once on a
\* record, and only while the ledger is short
CanRun(name) ==
    /\ Len(record.analysers) < MaxLedger
    /\ \A i \in 1..Len(record.analysers) :
          Has(record.analysers[i], "analyser") => record.analysers[i].analyser # name

RunAhoCorasickDomainMatching ==
    /\ CanRun(AnalyserNames.aho)
    /\ raised' = LacksDomains(record)
    /\ record' = IF LacksDomains(record) THEN WithLedger(record)
                 ELSE AhoCorasickDomainMatchingRun(record)
    /\ last' = [analyser |-> Analyser(AnalyserNames.aho), record |-> record]
    /\ UNCHANGED <<sink, domains_file, automaton, domains, threshold, engine>>

RunWordSegmentation ==
    /\ CanRun(AnalyserNames.ws)
    /\ raised' = LacksDomains(record)
    /\ record' = IF LacksDomains(record) THEN WithLedger(record)
                 ELSE WordSegmentationRun(record)
    /\ last' = [analyser |-> Analyser(AnalyserNames.ws), record |-> record]
    /\ UNCHANGED <<sink, domains_file, automaton, domains, threshold, engine>>

RunBulkDomainMarker ==
    /\ CanRun(AnalyserNames.bulk)
    /\ raised' = LacksDomains(record)
    /\ record' = IF LacksDomains(record) THEN WithLedger(record)
                 ELSE BulkDomainMarkerRun(record)
    /\ last' = [analyser |-> Analyser(AnalyserNames.bulk), record |-> record]
    /\ UNCHANGED <<sink, domains_file, automaton, domains, threshold, engine>>

RunDomainMatching ==
    /\ Len(record.analysers) <= MaxLedger
    /\ raised' = DomainMatchingRaises(record)
    /\ \E self \in DomainMatchings :
          /\ record' = IF raised' THEN record ELSE DomainMatchingRun(self, record)
          /\ last' = [analyser |-> MetaAnalyser(self), record |-> record]
    /\ UNCHANGED <<sink, domains_file, automaton, domains, threshold, engine>>

Next ==
    \/ RunAhoCorasickDomainMatching
    \/ RunWordSegmentation
    \/ RunBulkDomainMarker
    \/ RunDomainMatching

Spec == Init /\ [][Next]_vars

-----------------------------------------------------------------------------
(* The analysers called one by one, as the tests call them, on records of   *)
(* every shape: SAN lists with stop-words, SAN lists around the default     *)
(* threshold, records without SAN list, ledger entries without a key        *)

Digits == <<"0", "1", "2", "3", "4", "5", "6", "7", "8", "9">>

\* the host names h00.io, h01.io, ...
NumberedHost(i) ==
    Join(<< <<"h", Digits[(i \div 10) + 1], Digits[(i % 10) + 1]>>, W_io >>)

\* a SAN list of n host names
BulkSans(n) == [i \in 1..n |-> NumberedHost(i)]

StageHosts ==
    { H_myapp_ted_com_evil_io, H_star_home_ted_io, H_my_ted_com_evil_io,
      H_go_idna_io, H_my_teddy_io }

StageSanLists ==
    {sans \in UNION {[1..n -> StageHosts] : n \in 0..MaxSans} :
        \A i, j \in 1..Len(sans) : sans[i] = sans[j] => i = j}
    \cup {BulkSans(n) : n \in (BULK_DOMAIN_THRESHOLD - 1)..(BULK_DOMAIN_THRESHOLD + 1)}

\* ledger entries that lack the identifier or the output
MalformedEntries ==
    { [output |-> TRUE], [analyser |-> AnalyserNames.ws],
      [analyser |-> AnalyserNames.bulk], [analyser |-> "Debugger"] }

\* a ledger written by hand, as the tests of DomainMatching write it: matches
\* with several reference domains each, one of them without segmentation
PreparedLedger ==
    << [analyser |-> AnalyserNames.aho,
        output |-> << <<H_my_ted_com_evil_io,
                        <<D_ted_io, D_noted_io, D_ted_com, D_evil_io>> >>,
                      <<H_www, <<D_ted_com>> >>,
                      <<H_noted_evil_io, <<D_noted_io, D_ted_com>> >> >>],
       [analyser |-> AnalyserNames.ws,
        output |-> SegmentAll(<<H_my_ted_com_evil_io, H_noted_evil_io>>, <<>>)] >>

PreparedRecords ==
    { [all_domains |-> <<H_my_ted_com_evil_io, H_www, H_noted_evil_io>>,
       analysers |-> PreparedLedger, has_analysers |-> TRUE] }

\* records with the other fields CertstreamTransformer.apply gives them
FilteredRecords ==
    { [cert_index |-> 27, seen |-> 15, chain |-> <<>>, not_before |-> 10,
       not_after |-> 20, all_domains |-> sans, analysers |-> <<>>,
       has_analysers |-> TRUE] :
         sans \in { <<H_my_ted_com_evil_io>>, <<H_www, H_star_home_ted_io>> } }

StageRecords ==
    {[all_domains |-> sans, analysers |-> <<>>, has_analysers |-> h] :
        sans \in StageSanLists, h \in BOOLEAN}
    \cup PreparedRecords
    \cup FilteredRecords
    \cup {[analysers |-> <<>>, has_analysers |-> h] : h \in BOOLEAN}
    \cup {[all_domains |-> <<H_my_ted_com_evil_io>>, analysers |-> <<e>>,
           has_analysers |-> TRUE] : e \in MalformedEntries}

StageInit ==
    /\ domains_file = <<D_ted_com, D_ted_io>>
    /\ automaton = AhoCorasickDomainMatchingInit(domains_file).automaton
    /\ domains = AhoCorasickDomainMatchingInit(domains_file).domains
    /\ threshold \in {SmallThreshold, BULK_DOMAIN_THRESHOLD}
    /\ record \in StageRecords
    /\ raised = FALSE
    /\ last = [analyser |-> Analyser("none"), record |-> record]
    /\ NoEngine
    /\ NoFileReporter

StageSpec == StageInit /\ [][Next]_vars

-----------------------------------------------------------------------------
(* CertstreamAnalytics: the thread that calls start() and stop(), and the   *)
(* worker thread in which certstream calls _callback for every feed event   *)

MaxEvents == 2    \* feed events delivered

\* Python's None, and the truth value of a message
None == [none |-> TRUE]
Truthy(m) == m # None

\* the storages and the reporters attached to the engine
Storages == <<"storage 1", "storage 2">>
Reporters == <<"reporter 1", "reporter 2">>

\* the analysers of init_analysers that are modelled, in its order, and the
\* DomainMatching object among them
DefaultDomainMatching == DomainMatchingInit(TRUE, "list")
Pipeline ==
    <<AnalyserNames.aho, AnalyserNames.ws, AnalyserNames.bulk, AnalyserNames.dm>>

\* the events of the feed
Heartbeat == [message_type |-> "heartbeat"]
CertificateUpdate(sans) ==
    [message_type |-> "certificate_update",
     data |-> [leaf_cert |-> [all_domains |-> sans]]]

FeedSanLists == { <<>>, <<H_my_ted_com_evil_io>>, <<H_www, H_my_ted_com>> }
Messages == {Heartbeat} \cup {CertificateUpdate(sans) : sans \in FeedSanLists}

\* CertstreamTransformer.apply: the record of an event, None without SANs
CertstreamTransformerApply(raw) ==
    IF raw.data.leaf_cert.all_domains # <<>>
    THEN [all_domains |-> raw.data.leaf_cert.all_domains,
          analysers |-> <<>>, has_analysers |-> TRUE]
    ELSE None

\* the raw event handed on as it is: a dict without 'all_domains' and
\* without 'analysers'
Untransformed(raw) ==
    [message_type |-> raw.message_type, data |-> raw.data,
     analysers |-> <<>>, has_analysers |-> FALSE]

Transformed(raw) ==
    IF transformer # "None" THEN CertstreamTransformerApply(raw)
    ELSE Untransformed(raw)

\* analyser.run(transformed_message): whether it raises, the record it
\* returns, the record it leaves behind when it raises
AnalyserRaises(name, rec) ==
    IF name = AnalyserNames.dm THEN DomainMatchingRaises(rec) ELSE LacksDomains(rec)

AnalyserRun(name, rec) ==
    CASE name = AnalyserNames.aho -> AhoCorasickDomainMatchingRun(rec)
      [] name = AnalyserNames.ws -> WordSegmentationRun(rec)
      [] name = AnalyserNames.bulk -> BulkDomainMarkerRun(rec)
      [] name = AnalyserNames.dm -> DomainMatchingRun(DefaultDomainMatching, rec)

AnalyserLeaves(name, rec) ==
    IF name = AnalyserNames.dm THEN rec ELSE WithLedger(rec)

AnalyserObject(name) ==
    IF name = AnalyserNames.dm THEN MetaAnalyser(DefaultDomainMatching)
    ELSE Analyser(name)

\* where _callback goes on after the transformer, after the storages, after
\* analyser i, after the analysers and after reporter j
AfterAnalysers(m) ==
    IF Reporters # <<>> /\ Truthy(m) THEN [at |-> "publish", i |-> 1] ELSE Idle

AfterStorages(m) ==
    IF pipeline # <<>>
    THEN IF Truthy(m) THEN [at |-> "run", i |-> 1] ELSE AfterAnalysers(m)
    ELSE Idle

AfterTransformer(m) ==
    IF Storages # <<>> /\ Truthy(m) THEN [at |-> "save", i |-> 1]
    ELSE AfterStorages(m)

AfterStorage(i, m) ==
    IF i < Len(Storages) THEN [at |-> "save", i |-> i + 1] ELSE AfterStorages(m)

\* every other analyser passed over
AfterAnalyserMutant(i, m) ==
    IF i + 1 < Len(pipeline) /\ Truthy(m) THEN [at |-> "run", i |-> i + 2]
    ELSE AfterAnalysers(m)

AfterAnalyser(i, m) ==
    IF i < Len(pipeline) /\ Truthy(m) THEN [at |-> "run", i |-> i + 1]
    ELSE AfterAnalysers(m)

AfterReporter(j) ==
    IF j < Len(Reporters) THEN [at |-> "publish", i |-> j + 1] ELSE Idle

StreamInit ==
    /\ domains_file = <<D_ted_com, D_ted_io>>
    /\ automaton = AhoCorasickDomainMatchingInit(domains_file).automaton
    /\ domains = AhoCorasickDomainMatchingInit(domains_file).domains
    /\ threshold = SmallThreshold
    /\ record = None
    /\ raised = FALSE
    /\ last = [analyser |-> Analyser("none"), record |-> None]
    /\ transformer \in {"None", "CertstreamTransformer"}
    /\ pipeline \in {<<>>, Pipeline}
    /\ stopped = TRUE
    /\ thread = "None"
    /\ caller = "constructed"
    /\ pc = Idle
    /\ calls = <<>>
    /\ events = 0
    /\ message = [message_type |-> "none"]
    /\ NoFileReporter

\* start(): the worker thread created and started
Start ==
    /\ caller = "constructed"
    /\ thread' = "started"
    /\ caller' = "running"
    /\ UNCHANGED <<sink, domains_file, automaton, domains, threshold, record, raised,
                   last, transformer, pipeline, stopped, pc, calls, events, message>>

\* stop() that joins without setting the flag
StopMutant ==
    /\ caller = "running"
    /\ caller' = IF stopped THEN "returned" ELSE "joining"
    /\ UNCHANGED <<sink, domains_file, automaton, domains, threshold, record, raised,
                   last, transformer, pipeline, stopped, thread, pc, calls, events,
                   message>>

\* stop(): returns at once when the flag is set, else sets it and joins
Stop ==
    /\ caller = "running"
    /\ IF stopped
       THEN caller' = "returned" /\ UNCHANGED stopped
       ELSE caller' = "joining" /\ stopped' = TRUE
    /\ UNCHANGED <<sink, domains_file, automaton, domains, threshold, record, raised,
                   last, transformer, pipeline, thread, pc, calls, events, message>>

\* self.thread.join() returns when the worker has terminated
ThreadJoin ==
    /\ caller = "joining"
    /\ thread = "exited"
    /\ caller' = "returned"
    /\ UNCHANGED <<sink, domains_file, automaton, domains, threshold, record, raised,
                   last, transformer, pipeline, stopped, thread, pc, calls, events,
                   message>>

\* _consume: self.stopped = False, then certstream.listen_for_events
Consume ==
    /\ thread = "started"
    /\ stopped' = FALSE
    /\ thread' = "listening"
    /\ UNCHANGED <<sink, domains_file, automaton, domains, threshold, record, raised,
                   last, transformer, pipeline, caller, pc, calls, events, message>>

\* _callback entered for an event: sys.exit() when stopped, return for a
\* heartbeat, else the event transformed
Callback ==
    /\ thread = "listening"
    /\ pc = Idle
    /\ events < MaxEvents
    /\ events' = events + 1
    /\ \E msg \in Messages :
       /\ message' = msg
       /\ IF stopped
          THEN /\ thread' = "exited"
               /\ UNCHANGED <<record, raised, pc, calls>>
          ELSE IF msg.message_type = "heartbeat"
          THEN /\ calls' = <<>>
               /\ raised' = FALSE
               /\ UNCHANGED <<record, thread, pc>>
          ELSE /\ record' = Transformed(msg)
               /\ calls' = IF transformer # "None" THEN << <<"transformer", 0>> >>
                           ELSE <<>>
               /\ raised' = FALSE
               /\ pc' = AfterTransformer(Transformed(msg))
               /\ UNCHANGED thread
    /\ UNCHANGED <<sink, domains_file, automaton, domains, threshold, last,
                   transformer, pipeline, stopped, caller>>

\* an exception leaves _callback: certstream either logs it and goes on
\* listening, or the worker thread ends with it
Abort ==
    /\ raised' = TRUE
    /\ pc' = Idle
    /\ thread' \in {"listening", "exited"}

\* storage.save(transformed_message), which the storage may fail
Save ==
    /\ thread = "listening"
    /\ pc.at = "save"
    /\ calls' = Append(calls, <<"storage", pc.i>>)
    /\ \/ /\ pc' = AfterStorage(pc.i, record)
          /\ UNCHANGED <<raised, thread>>
       \/ Abort
    /\ UNCHANGED <<sink, domains_file, automaton, domains, threshold, record, last,
                   transformer, pipeline, stopped, caller, events, message>>

\* transformed_message = analyser.run(transformed_message)
Run ==
    /\ thread = "listening"
    /\ pc.at = "run"
    /\ calls' = Append(calls, <<"analyser", pc.i>>)
    /\ last' = [analyser |-> AnalyserObject(pipeline[pc.i]), record |-> record]
    /\ IF AnalyserRaises(pipeline[pc.i], record)
       THEN /\ record' = AnalyserLeaves(pipeline[pc.i], record)
            /\ Abort
       ELSE /\ record' = AnalyserRun(pipeline[pc.i], record)
            /\ pc' = AfterAnalyser(pc.i, AnalyserRun(pipeline[pc.i], record))
            /\ UNCHANGED <<raised, thread>>
    /\ UNCHANGED <<sink, domains_file, automaton, domains, threshold, transformer,
                   pipeline, stopped, caller, events, message>>

\* reporter.publish(transformed_message), which the reporter may fail
Publish ==
    /\ thread = "listening"
    /\ pc.at = "publish"
    /\ calls' = Append(calls, <<"reporter", pc.i>>)
    /\ \/ /\ pc' = AfterReporter(pc.i)
          /\ UNCHANGED <<raised, thread>>
       \/ Abort
    /\ UNCHANGED <<sink, domains_file, automaton, domains, threshold, record, last,
                   transformer, pipeline, stopped, caller, events, message>>

StreamNext ==
    \/ Start
    \/ Stop
    \/ ThreadJoin
    \/ Consume
    \/ Callback
    \/ Save
    \/ Run
    \/ Publish

StreamSpec == StreamInit /\ [][StreamNext]_vars

\* the step of Run as the calls show it: Run is enabled in exactly the states
\* of its two guards, and no other action appends an analyser's call
RunReturns ==
    /\ thread = "listening"
    /\ pc.at = "run"
    /\ calls' = Append(calls, <<"analyser", pc.i>>)

\* the worker thread keeps running: the feed delivers its next event, the
\* call _callback has reached returns and goes on, and the join returns once
\* the worker has ended
StreamFairSpec ==
    /\ StreamSpec
    /\ WF_vars(Callback)
    /\ WF_vars(Save)
    /\ WF_calls(RunReturns)
    /\ WF_vars(Publish)
    /\ WF_vars(ThreadJoin)

-----------------------------------------------------------------------------
(* The normalizers IDNADecoder and HomoglyphsDecoder, run on a record before *)
(* the analysers of its SANs                                                  *)

\* the wildcard marker r'^\*\.' and the prefix of a label in Punycode
WildcardMarker == <<"*", Dot>>
AcePrefix == <<"x", "n", "-", "-">>

\* idna.decode on the labels in Punycode that the SANs of the model hold:
\* 'xn--f1a' and 'xn--p1ai' decode, every other 'xn--' label fails
Punycode ==
    << <<AcePrefix \o <<"f", "1", "a">>, <<"U+0436">> >>,
       <<AcePrefix \o <<"p", "1", "a", "i">>, <<"U+0440", "U+0444">> >> >>

\* idna.decode(domain) raises (InvalidCodepoint or another UnicodeError)
IdnaRaises(domain) ==
    \E l \in Range(Split(domain)) :
       l = <<>> \/ (StartsWith(l, AcePrefix) /\ ~DictHas(Punycode, l))

\* idna.decode(domain) when it does not raise
IdnaDecode(domain) ==
    Join([i \in 1..Len(Split(domain)) |->
            IF DictHas(Punycode, Split(domain)[i])
            THEN DictGet(Punycode, Split(domain)[i])
            ELSE Split(domain)[i]])

\* the wildcard marker lost when the domain fails to decode
DecodeDomainMutant(domain) ==
    IF IdnaRaises(StripPrefix(domain, WildcardMarker))
    THEN StripPrefix(domain, WildcardMarker)
    ELSE IF StartsWith(domain, WildcardMarker)
    THEN WildcardMarker \o IdnaDecode(StripPrefix(domain, WildcardMarker))
    ELSE IdnaDecode(domain)

\* the body of the loop of IDNADecoder.run: try / except: pass / finally
DecodeDomain(domain) ==
    LET wildcard == StartsWith(domain, WildcardMarker)
        bare == StripPrefix(domain, WildcardMarker)
        decoded == IF IdnaRaises(bare) THEN bare ELSE IdnaDecode(bare)
    IN  IF wildcard THEN WildcardMarker \o decoded ELSE decoded

\* record['all_domains'] = decoded
IDNADecoderRun(rec) ==
    [rec EXCEPT !.all_domains =
        [i \in 1..Len(rec.all_domains) |-> DecodeDomain(rec.all_domains[i])]]

\* range(ord('a'), ord('z') + 1) and range(ord('A'), ord('Z') + 1)
lower_s ==
    << "a", "b", "c", "d", "e", "f", "g", "h", "i", "j", "k", "l", "m",
       "n", "o", "p", "q", "r", "s", "t", "u", "v", "w", "x", "y", "z" >>
upper_s ==
    << "A", "B", "C", "D", "E", "F", "G", "H", "I", "J", "K", "L", "M",
       "N", "O", "P", "Q", "R", "S", "T", "U", "V", "W", "X", "Y", "Z" >>

\* str.lower() of a str of Latin letters
Lower(s) ==
    [k \in 1..Len(s) |->
        IF s[k] \in Range(upper_s)
        THEN lower_s[CHOOSE i \in 1..Len(upper_s) : upper_s[i] = s[k]]
        ELSE s[k]]

\* what confusables.is_confusable(domain, greedy=True) reports for the
\* characters of the model that change the outcome: the alias of the
\* character and its homoglyphs
ConfusablesData ==
    << <<"l", [alias |-> "LATIN", homoglyphs |-> << <<"I">>, <<"1">> >>] >>,
       <<"m", [alias |-> "LATIN", homoglyphs |-> << <<"r", "n">> >>] >>,
       <<"U+0440", [alias |-> "CYRILLIC", homoglyphs |-> << <<"p">> >>] >>,
       <<"U+0436", [alias |-> "CYRILLIC", homoglyphs |-> << <<"U+04C2">> >>] >> >>

\* is_latin of the inner loop: every character of the homoglyph is a-z or A-Z
IsLatin(alt) ==
    \A k \in 1..Len(alt) : alt[k] \in Range(lower_s) \cup Range(upper_s)

\* the list found for a character that has homoglyphs
Found(domain_c) ==
    LET hglyph == DictGet(ConfusablesData, domain_c)
        own == IF hglyph.alias = "LATIN" THEN << <<domain_c>> >> ELSE <<>>
        latin == SelectSeq(hglyph.homoglyphs, IsLatin)
        found == own \o [k \in 1..Len(latin) |-> Lower(latin[k])]
    IN  IF found = <<>> THEN << <<domain_c>> >> ELSE found

\* decoded_domain_c: for every character of the domain its alternatives
AlternativeCharacters(domain) ==
    [k \in 1..Len(domain) |->
        IF ~DictHas(ConfusablesData, domain[k]) THEN << <<domain[k]>> >>
        ELSE Found(domain[k])]

\* HomoglyphsDecoder._generate_alternatives, index counted from 0; the
\* second operator is its loop over alt_characters[index] from the k-th on
RECURSIVE GenerateAlternatives(_, _, _), GenerateFrom(_, _, _, _)
GenerateAlternatives(alt_characters, index, current) ==
    IF index = Len(alt_characters) THEN <<current>>
    ELSE GenerateFrom(alt_characters, index, current, 1)

GenerateFrom(alt_characters, index, current, k) ==
    IF k > Len(alt_characters[index + 1]) THEN <<>>
    ELSE GenerateAlternatives(alt_characters, index + 1,
                              current \o alt_characters[index + 1][k])
         \o GenerateFrom(alt_characters, index, current, k + 1)

\* every alternative appended, the decoder greedy or not
DomainAlternativesMutant(self, domain) ==
    LET bare == StripPrefix(domain, WildcardMarker)
        alts == GenerateAlternatives(AlternativeCharacters(bare), 0, <<>>)
    IN  [k \in 1..Len(alts) |->
           IF StartsWith(domain, WildcardMarker) THEN WildcardMarker \o alts[k]
           ELSE alts[k]]

\* the alternatives one domain adds to decoded: the first one only unless
\* the decoder is greedy
DomainAlternatives(self, domain) ==
    LET wildcard == StartsWith(domain, WildcardMarker)
        bare == StripPrefix(domain, WildcardMarker)
        alts == GenerateAlternatives(AlternativeCharacters(bare), 0, <<>>)
        marked == [k \in 1..Len(alts) |->
                     IF wildcard THEN WildcardMarker \o alts[k] ELSE alts[k]]
    IN  IF self.greedy THEN marked ELSE SubSeq(marked, 1, 1)

RECURSIVE DecodedAlternatives(_, _)
DecodedAlternatives(self, all_domains) ==
    IF all_domains = <<>> THEN <<>>
    ELSE DomainAlternatives(self, Head(all_domains))
         \o DecodedAlternatives(self, Tail(all_domains))

\* HomoglyphsDecoder(greedy) and its run
HomoglyphsDecoderInit(greedy) == [name |-> "HomoglyphsDecoder", greedy |-> greedy]

HomoglyphsDecoderRun(self, rec) ==
    [rec EXCEPT !.all_domains = DecodedAlternatives(self, rec.all_domains)]

\* the SANs the normalizers are run on: plain ones, ones in Punycode that
\* decode and ones that do not, with and without the wildcard marker
N_mail_io == Join(<<<<"m", "a", "i", "l">>, W_io>>)
N_idna == Join(<<AcePrefix \o <<"f", "1", "a">>, AcePrefix \o <<"p", "1", "a", "i">>>>)
N_star_idna_io == Join(<<W_star, AcePrefix \o <<"f", "1", "a">>, W_io>>)
N_invalid_io == Join(<<AcePrefix \o <<"m", "e">>, W_io>>)
N_star_invalid_io == Join(<<W_star, AcePrefix \o <<"m", "e">>, W_io>>)

EncodedHosts ==
    {D_ted_com, N_mail_io, N_idna, N_star_idna_io, N_invalid_io, N_star_invalid_io}

EncodedSanLists ==
    {sans \in UNION {[1..n -> EncodedHosts] : n \in 0..MaxSans} :
        \A i, j \in 1..Len(sans) : sans[i] = sans[j] => i = j}

EncodedRecords ==
    {[all_domains |-> sans, analysers |-> <<>>, has_analysers |-> FALSE] :
        sans \in EncodedSanLists}
    \cup {[analysers |-> <<>>, has_analysers |-> FALSE]}

DecoderInit ==
    /\ domains_file = <<D_ted_com, D_ted_io>>
    /\ automaton = AhoCorasickDomainMatchingInit(domains_file).automaton
    /\ domains = AhoCorasickDomainMatchingInit(domains_file).domains
    /\ threshold = BULK_DOMAIN_THRESHOLD
    /\ record \in EncodedRecords
    /\ raised = FALSE
    /\ last = [analyser |-> Analyser("none"), record |-> record]
    /\ NoEngine
    /\ NoFileReporter

\* IDNADecoder().run(record), the first analyser of the list
RunIDNADecoder ==
    /\ last.analyser.name = "none"
    /\ raised' = LacksDomains(record)
    /\ record' = IF LacksDomains(record) THEN record ELSE IDNADecoderRun(record)
    /\ last' = [analyser |-> [name |-> "IDNADecoder"], record |-> record]
    /\ UNCHANGED <<sink, domains_file, automaton, domains, threshold, engine>>

\* HomoglyphsDecoder(greedy).run(record), on the record as it is or as
\* IDNADecoder returned it
RunHomoglyphsDecoder ==
    /\ last.analyser.name \in {"none", "IDNADecoder"}
    /\ ~raised
    /\ \E greedy \in BOOLEAN :
          /\ record' = IF LacksDomains(record) THEN record
                       ELSE HomoglyphsDecoderRun(HomoglyphsDecoderInit(greedy), record)
          /\ last' = [analyser |-> HomoglyphsDecoderInit(greedy), record |-> record]
    /\ raised' = LacksDomains(record)
    /\ UNCHANGED <<sink, domains_file, automaton, domains, threshold, engine>>

DecoderNext ==
    \/ RunIDNADecoder
    \/ RunHomoglyphsDecoder

DecoderSpec == DecoderInit /\ [][DecoderNext]_vars

-----------------------------------------------------------------------------
(* FileReporter, of reporters/base.py and of reporter/base.py, and the JSON  *)
(* text of a report                                                           *)

MaxReports == 3    \* calls of publish

Quote == "\""
Backslash == "\\"
Newline == "\n"

\* the characters outside ASCII that the reports hold, with the four hex
\* digits json.dumps writes for each
CodePoints ==
    << <<"U+0436", <<"0", "4", "3", "6">> >>,
       <<"U+0440", <<"0", "4", "4", "0">> >> >>

\* json.dumps of one character of a str (ensure_ascii=True)
EscapeChar(c) ==
    IF c \in {Quote, Backslash} THEN <<Backslash, c>>
    ELSE IF c = Newline THEN <<Backslash, "n">>
    ELSE IF DictHas(CodePoints, c) THEN <<Backslash, "u">> \o DictGet(CodePoints, c)
    ELSE <<c>>

RECURSIVE Escape(_)
Escape(s) == IF s = <<>> THEN <<>> ELSE EscapeChar(Head(s)) \o Escape(Tail(s))

\* json.dumps of a str and of a list of str
DumpStr(s) == <<Quote>> \o Escape(s) \o <<Quote>>

RECURSIVE DumpItems(_)
DumpItems(l) ==
    IF l = <<>> THEN <<>>
    ELSE IF Len(l) = 1 THEN DumpStr(l[1])
    ELSE DumpStr(l[1]) \o <<",", " ">> \o DumpItems(Tail(l))

DumpList(l) == <<"[">> \o DumpItems(l) \o <<"]">>

\* the key 'all_domains' as a str
K_all_domains == <<"a", "l", "l", "_", "d", "o", "m", "a", "i", "n", "s">>

\* a report is the dict {} or a dict {'all_domains': [...]}; not report
IsEmptyReport(report) == DOMAIN report = {}

\* json.dumps(report)
JsonDumps(report) ==
    IF IsEmptyReport(report) THEN <<"{", "}">>
    ELSE <<"{">> \o DumpStr(K_all_domains) \o <<":", " ">>
            \o DumpList(report.all_domains) \o <<"}">>

\* json.loads: the str whose opening quote is before position i, with the
\* position after its closing quote
RECURSIVE ScanStr(_, _, _)
ScanStr(text, i, acc) ==
    IF text[i] = Quote THEN [value |-> acc, next |-> i + 1]
    ELSE IF text[i] # Backslash THEN ScanStr(text, i + 1, Append(acc, text[i]))
    ELSE IF text[i + 1] = "n" THEN ScanStr(text, i + 2, Append(acc, Newline))
    ELSE IF text[i + 1] = "u"
    THEN ScanStr(text, i + 6,
                 Append(acc, CHOOSE c \in DictKeys(CodePoints) :
                                DictGet(CodePoints, c) = SubSeq(text, i + 2, i + 5)))
    ELSE ScanStr(text, i + 2, Append(acc, text[i + 1]))

\* json.loads: the items of the list from position i to its closing bracket
RECURSIVE ScanItems(_, _, _)
ScanItems(text, i, acc) ==
    IF text[i] = "]" THEN acc
    ELSE IF text[i] = Quote
    THEN ScanItems(text, ScanStr(text, i + 1, <<>>).next,
                   Append(acc, ScanStr(text, i + 1, <<>>).value))
    ELSE ScanItems(text, i + 1, acc)

\* json.loads(line) of the test, for the text of a report
JsonLoads(text) ==
    IF text = <<"{", "}">> THEN <<>>
    ELSE [all_domains |->
            ScanItems(text, ScanStr(text, 3, <<>>).next + 3, <<>>)]

\* fhandler.readlines(): the lines of a text, each without its newline
RECURSIVE ReadLines(_)
ReadLines(text) ==
    IF text = <<>> THEN <<>>
    ELSE IF \A i \in 1..Len(text) : text[i] # Newline THEN <<text>>
    ELSE LET i == Min({j \in 1..Len(text) : text[j] = Newline})
         IN  <<SubSeq(text, 1, i - 1)>> \o ReadLines(SubSeq(text, i + 1, Len(text)))

\* the reports published: the empty one, one without SANs, and some whose
\* SANs hold a quote, a backslash and characters outside ASCII
Reports ==
    { <<>>,
      [all_domains |-> <<>>],
      [all_domains |-> <<D_ted_com>>],
      [all_domains |-> <<H_go_idna_io, <<"a", Quote, Backslash, "b">>>>] }

\* FileReporter(path) of reporters/base.py keeps the file open for appending;
\* the one of reporter/base.py keeps the path and opens the file in publish
ReporterInit ==
    /\ domains_file = <<D_ted_com, D_ted_io>>
    /\ automaton = AhoCorasickDomainMatchingInit(domains_file).automaton
    /\ domains = AhoCorasickDomainMatchingInit(domains_file).domains
    /\ threshold = BULK_DOMAIN_THRESHOLD
    /\ record = None
    /\ raised = FALSE
    /\ last = [analyser |-> Analyser("none"), record |-> record]
    /\ NoEngine
    /\ fhandler \in {[kind |-> "reporters", buffer |-> <<>>], [kind |-> "reporter"]}
    /\ report_file = <<>>
    /\ reports = <<>>

\* print(json.dumps(report), file=...): into the buffer of the open handle,
\* which the short reports of the model never fill, or into the file itself
\* when it is opened and closed around the call
FilePublish ==
    /\ fhandler.kind \in {"reporters", "reporter"}
    /\ Len(reports) < MaxReports
    /\ \E report \in Reports :
          /\ reports' = Append(reports, report)
          /\ IF IsEmptyReport(report) THEN UNCHANGED <<fhandler, report_file>>
             ELSE IF fhandler.kind = "reporters"
             THEN /\ fhandler' = [fhandler EXCEPT !.buffer =
                                     @ \o JsonDumps(report) \o <<Newline>>]
                  /\ UNCHANGED report_file
             ELSE /\ report_file' = report_file \o JsonDumps(report) \o <<Newline>>
                  /\ UNCHANGED fhandler
    /\ UNCHANGED <<domains_file, automaton, domains, threshold, record, raised,
                   last, engine>>

\* __del__ of reporters/base.py: self.fhandler.close() writes what the handle holds
FileDel ==
    /\ fhandler.kind = "reporters"
    /\ report_file' = report_file \o fhandler.buffer
    /\ fhandler' = [kind |-> "closed"]
    /\ UNCHANGED <<domains_file, automaton, domains, threshold, record, raised,
                   last, engine, reports>>

ReporterNext ==
    \/ FilePublish
    \/ FileDel

ReporterSpec == ReporterInit /\ [][ReporterNext]_vars

-----------------------------------------------------------------------------
(* FeaturesGenerator: one row of features for every domain of the first     *)
(* WordSegmentation output of the ledger                                    *)

NOSTRIL_LENGTH_LIMIT == 6

\* randomness_count / len(segments), the quotient kept as its two terms
Quotient(n, d) == [num |-> n, den |-> d]

\* where the loop over the ledger ends: the first entry that is the
\* segmenter's, where it breaks, or that has no identifier, where
\* analyser['analyser'] raises KeyError; 0 when it reads the ledger through
LoopEnd(ledger) ==
    LET ends == {i \in 1..Len(ledger) :
                    \/ ~Has(ledger[i], "analyser")
                    \/ ledger[i].analyser = AnalyserNames.ws}
    IN  IF ends = {} THEN 0 ELSE Min(ends)

\* the exceptions of run: KeyError for an entry without identifier or a
\* segmenter's entry without output, ZeroDivisionError for a domain without
\* segments
FeaturesGeneratorRaises(rec) ==
    LET ledger == rec.analysers
        i == LoopEnd(ledger)
    IN  /\ i > 0
        /\ \/ ~Has(ledger[i], "analyser")
           \/ ~Has(ledger[i], "output")
           \/ \E k \in 1..Len(ledger[i].output) : ledger[i].output[k][2] = <<>>

\* the segments nonsense() is asked about
LongSegments(segments) ==
    {w \in Range(segments) : Len(w) >= NOSTRIL_LENGTH_LIMIT}

\* the row x of one domain; nonsense is the set of words nostril judges so
Features(key, segments, nonsense) ==
    LET domain == StripPrefix(key, <<"*", Dot>>)
        parts == Split(domain)
        randomness_count ==
            Cardinality({k \in 1..Len(segments) :
                            /\ Len(segments[k]) >= NOSTRIL_LENGTH_LIMIT
                            /\ segments[k] \in nonsense})
    IN  << Len(parts),
           Len(domain),
           Max({Len(parts[k]) : k \in 1..Len(parts)}),
           Len(parts[Len(parts)]),
           Quotient(randomness_count, Len(segments)) >>

\* x_samples
Samples(rec, nonsense) ==
    LET ledger == rec.analysers
        i == LoopEnd(ledger)
    IN  IF i = 0 THEN <<>>
        ELSE [k \in 1..Len(ledger[i].output) |->
                 Features(ledger[i].output[k][1], ledger[i].output[k][2], nonsense)]

FeaturesGeneratorName == "FeaturesGenerator"

\* run, for a record it raises nothing on
FeaturesGeneratorRun(rec, nonsense) ==
    AppendEntry(rec, FeaturesGeneratorName, Samples(rec, nonsense))

\* host names all of whose words are stop-words, and others
H_home_app == Join(<<W_home, W_app>>)
H_star_box_app == Join(<<W_star, W_box, W_app>>)

FeatureHosts ==
    { H_home_app, H_star_box_app, H_my_ted_com_evil_io, H_star_cpanel_ted_evil_io }

FeatureSanLists ==
    {sans \in UNION {[1..n -> FeatureHosts] : n \in 0..MaxSans} :
        \A i, j \in 1..Len(sans) : sans[i] = sans[j] => i = j}

FeatureRecords ==
    {[all_domains |-> sans, analysers |-> <<>>, has_analysers |-> h] :
        sans \in FeatureSanLists, h \in BOOLEAN}
    \cup PreparedRecords
    \cup {[all_domains |-> <<H_my_ted_com_evil_io>>, analysers |-> <<e>>,
           has_analysers |-> TRUE] : e \in MalformedEntries}

\* the words nostril may judge nonsense: any of the long words of the ledger
LongWords(rec) ==
    LET i == LoopEnd(rec.analysers)
    IN  IF i = 0 \/ FeaturesGeneratorRaises(rec) THEN {}
        ELSE UNION {LongSegments(rec.analysers[i].output[k][2]) :
                       k \in 1..Len(rec.analysers[i].output)}

\* WordSegmentation and FeaturesGenerator called on one record, the
\* segmenter first as bin/domain_matching.py registers them
FeaturesInit ==
    /\ domains_file = <<D_ted_com, D_ted_io>>
    /\ automaton = AhoCorasickDomainMatchingInit(domains_file).automaton
    /\ domains = AhoCorasickDomainMatchingInit(domains_file).domains
    /\ threshold = SmallThreshold
    /\ record \in FeatureRecords
    /\ raised = FALSE
    /\ last = [analyser |-> Analyser("none"), record |-> record]
    /\ NoEngine
    /\ NoFileReporter

RunFeaturesGenerator ==
    /\ Len(record.analysers) < MaxLedger
    /\ raised' = FeaturesGeneratorRaises(record)
    /\ \E nonsense \in SUBSET LongWords(record) :
          record' = IF FeaturesGeneratorRaises(record) THEN WithLedger(record)
                    ELSE FeaturesGeneratorRun(record, nonsense)
    /\ last' = [analyser |-> Analyser(FeaturesGeneratorName), record |-> record]
    /\ UNCHANGED <<sink, domains_file, automaton, domains, threshold, engine>>

FeaturesNext ==
    \/ RunWordSegmentation
    \/ RunFeaturesGenerator

FeaturesSpec == FeaturesInit /\ [][FeaturesNext]_vars

-----------------------------------------------------------------------------
(* What the last run did *)

Ran(name) == last.analyser.name = name

Before == last.record.analysers
After == record.analysers

Appended == Len(After) = Len(Before) + 1
NewOutput == After[Len(After)].output

\* the output of the last entry of an analyser in a ledger, <<>> when it has none
OutputOf(ledger, name) ==
    LET at == {i \in 1..Len(ledger) : ledger[i].analyser = name}
    IN  IF at = {} THEN <<>> ELSE ledger[Max(at)].output

\* the last run was DomainMatching on a ledger that holds both outputs
Correlated ==
    /\ Ran(AnalyserNames.dm)
    /\ last.record.has_analysers
    /\ OutputOf(Before, AnalyserNames.aho) # <<>>
    /\ OutputOf(Before, AnalyserNames.ws) # <<>>

\* the pairs (M, R) the matcher handed over for which M has a segmentation
Candidates ==
    LET aho == OutputOf(Before, AnalyserNames.aho)
        ws == OutputOf(Before, AnalyserNames.ws)
    IN  UNION { {<<aho[i][1], R>> : R \in Range(aho[i][2])} :
                  i \in {j \in 1..Len(aho) : DictHas(ws, aho[j][1])} }

Tokens(M) == DictGet(OutputOf(Before, AnalyserNames.ws), M)

\* the last run flagged the reference domain R against M
Flagged(M, R) ==
    /\ Appended
    /\ DictHas(NewOutput, M)
    /\ R \in Range(DictGet(NewOutput, M))

\* (registrable domain, suffix) of a host name
Registered(host) == <<Extract(host)[2], Extract(host)[3]>>

\* the labels of a reference domain that are compared, and their words
ComparedLabels(R, tld) ==
    Range(Split(Extract(R)[1])) \cup {Extract(R)[2]}
        \cup (IF tld THEN Range(Split(Extract(R)[3])) ELSE {})

ComparedWords(R, tld) == UNION {Range(Segment(l)) : l \in ComparedLabels(R, tld)}

\* the words of a reference domain in reading order
WordList(R, tld) ==
    SegmentParts(IF tld THEN Extract(R) ELSE SubSeq(Extract(R), 1, 2))

\* the indexed labels that occur in the text the matcher looks at
LabelsIn(domain) ==
    {l \in DictKeys(automaton) : Contains(MatchedText(Stripped(domain)), l)}

LongLabelsIn(domain) == {l \in LabelsIn(domain) : Len(l) >= MIN_MATCHING_LENGTH}

\* the positions of the SANs in which a label long enough occurs
Hits == {i \in 1..Len(last.record.all_domains) :
            LongLabelsIn(last.record.all_domains[i]) # {}}

-----------------------------------------------------------------------------
(* C1: a record whose ledger holds a true BulkDomainMarker output gets no *)
(* DomainMatching entry, whatever the other two outputs are.              *)
C1_BulkRecordGetsNoVerdict ==
    ( /\ Ran(AnalyserNames.dm)
      /\ \E i \in 1..Len(Before) :
            Before[i].analyser = AnalyserNames.bulk /\ Before[i].output )
    => After = Before

(* C2: in order mode a candidate that passes the legitimate-relationship   *)
(* filter is flagged exactly when the dot-joined words of R occur anywhere  *)
(* in the dot-joined tokens of M, the very start included.                  *)
C2_OrderModeIsSubstring ==
    (Correlated /\ last.analyser.option = "list")
    => \A c \in Candidates :
          Registered(c[1]) # Registered(c[2])
          => ( Flagged(c[1], c[2])
               <=> Contains(Join(Tokens(c[1])),
                            Join(WordList(c[2], last.analyser.include_tld))) )

(* C2, as amended: in order mode a candidate that passes the filter is       *)
(* flagged exactly when a dot followed by the dot-joined words of R occurs   *)
(* in the dot-joined tokens of M: the words of R must begin right after a    *)
(* dot, so never at the very start of the tokens.                            *)
C2_OrderModeAfterDot ==
    (Correlated /\ last.analyser.option = "list")
    => \A c \in Candidates :
          Registered(c[1]) # Registered(c[2])
          => ( Flagged(c[1], c[2])
               <=> Contains(Join(Tokens(c[1])),
                            <<Dot>> \o Join(WordList(c[2], last.analyser.include_tld))) )

\* order mode left a domain unflagged whose tokens begin with the words of R
C2_Witness ==
    /\ Correlated /\ last.analyser.option = "list"
    /\ \E c \in Candidates :
          /\ Registered(c[1]) # Registered(c[2])
          /\ StartsWith(Join(Tokens(c[1])),
                        Join(WordList(c[2], last.analyser.include_tld)) \o <<Dot>>)
          /\ ~Flagged(c[1], c[2])

(* C3: in subset mode a candidate that passes the filter is flagged exactly *)
(* when every word of R's compared labels is one of the tokens of M.        *)
C3_SubsetModeIsContainment ==
    (Correlated /\ last.analyser.option = "set")
    => \A c \in Candidates :
          Registered(c[1]) # Registered(c[2])
          => ( Flagged(c[1], c[2])
               <=> \A w \in ComparedWords(c[2], last.analyser.include_tld) :
                      w \in Range(Tokens(c[1])) )

\* subset mode flagged a domain whose tokens hold the words of R, though the
\* order-sensitive comparison of the same words fails
C3_Witness ==
    /\ Correlated /\ last.analyser.option = "set"
    /\ \E c \in Candidates :
          /\ Flagged(c[1], c[2])
          /\ ~IsOrderMatch(WordList(c[2], last.analyser.include_tld), Tokens(c[1]))

(* C4: a reference domain with the (registrable domain, suffix) of the      *)
(* matched domain is never in the DomainMatching output, in any mode.       *)
C4_LegitimateNeverFlagged ==
    Ran(AnalyserNames.dm)
    => \A M \in DictKeys(OutputOf(After, AnalyserNames.dm)) :
          \A R \in Range(DictGet(OutputOf(After, AnalyserNames.dm), M)) :
             Registered(M) # Registered(R)

\* DomainMatching ran on a subdomain of the reference domain whose tokens
\* hold the words of the reference domain side by side
C4_Witness ==
    /\ Correlated
    /\ \E c \in Candidates :
          /\ Registered(c[1]) = Registered(c[2])
          /\ IsOrderMatch(WordList(c[2], TRUE), Tokens(c[1]))
          /\ IsSubsetMatch(WordList(c[2], TRUE), Tokens(c[1]))

(* C5: the matcher's output has one key, the first SAN (wildcard and        *)
(* ignored part stripped) in which an indexed label of 3 letters or more    *)
(* occurs, with the domain the index keeps for the longest such label.      *)
C5_FirstMatchWins ==
    (Ran(AnalyserNames.aho) /\ Appended)
    => /\ Hits # {}
       /\ Len(NewOutput) = 1
       /\ LET san == last.record.all_domains[Min(Hits)]
          IN  /\ NewOutput[1][1] = Stripped(san)
              /\ \E l \in LongLabelsIn(san) :
                    /\ \A k \in LongLabelsIn(san) : Len(k) <= Len(l)
                    /\ NewOutput[1][2] = <<DictGet(domains, l)>>

\* two SANs match and the first one holds labels of two lengths
C5_Witness ==
    /\ Ran(AnalyserNames.aho) /\ Appended
    /\ Cardinality(Hits) >= 2
    /\ Cardinality(LongLabelsIn(last.record.all_domains[Min(Hits)])) >= 2

(* C6: the matcher appends an entry exactly when an indexed label occurs in *)
(* the text of some SAN, and nothing at all otherwise.                       *)
C6_EntryIffLabelOccurs ==
    Ran(AnalyserNames.aho)
    => ( Appended
         <=> \E i \in 1..Len(last.record.all_domains) :
                LabelsIn(last.record.all_domains[i]) # {} )

(* C6, as amended: the matcher appends an entry exactly when an indexed     *)
(* label of MIN_MATCHING_LENGTH letters or more occurs in the text of some  *)
(* SAN; otherwise the ledger is left as it was, without an empty marker.    *)
C6_EntryIffLongLabelOccurs ==
    Ran(AnalyserNames.aho)
    => /\ Appended <=> Hits # {}
       /\ ~Appended => After = Before

\* the matcher ran on a record with SANs, none of them matched, and the
\* ledger is as it was
C6_Witness ==
    /\ Ran(AnalyserNames.aho)
    /\ last.record.all_domains # <<>>
    /\ Before # <<>>
    /\ Hits = {}
    /\ After = Before

(* C7: a match on a label that several source domains reduce to reports the *)
(* first of them in the list the index was built from.                       *)
C7_FirstSeenWins ==
    (Ran(AnalyserNames.aho) /\ Appended)
    => \A R \in Range(NewOutput[1][2]) :
          \A j \in 1..Len(domains_file) :
             Extract(domains_file[j])[2] = Extract(R)[2]
             => \E k \in 1..j : domains_file[k] = R

(* C8: no label shorter than MIN_MATCHING_LENGTH accounts for a matcher     *)
(* output; a record whose SANs hold only shorter indexed labels gets no     *)
(* entry.                                                                    *)
C8_ShortLabelsNeverMatch ==
    Ran(AnalyserNames.aho)
    => /\ Appended =>
             \A R \in Range(NewOutput[1][2]) :
                Len(Extract(R)[2]) >= MIN_MATCHING_LENGTH
       /\ ( \A i \in 1..Len(last.record.all_domains) :
               \A l \in LabelsIn(last.record.all_domains[i]) :
                  Len(l) < MIN_MATCHING_LENGTH )
          => ~Appended

\* the matcher ran on a record in which an indexed label of two letters
\* occurs, and appended nothing
C8_Witness ==
    /\ Ran(AnalyserNames.aho)
    /\ ~Appended
    /\ \E i \in 1..Len(last.record.all_domains) :
          \E l \in LabelsIn(last.record.all_domains[i]) : Len(l) = 2

(* C9: no domain whose label is www or web is in the index, and a SAN that  *)
(* is that label is never the matched domain.                                *)
C9_ExcludedNeverIndexed ==
    /\ DictKeys(automaton) \cap EXCLUDED_DOMAINS = {}
    /\ DictKeys(domains) \cap EXCLUDED_DOMAINS = {}
    /\ (Ran(AnalyserNames.aho) /\ Appended)
       => NewOutput[1][1] \notin EXCLUDED_DOMAINS

\* the list held a domain whose label is www, the record the SAN www, and
\* the matcher appended nothing
C9_Witness ==
    /\ \E j \in 1..Len(domains_file) : Extract(domains_file[j])[2] = W_www
    /\ Ran(AnalyserNames.aho)
    /\ last.record.all_domains = <<W_www>>
    /\ ~Appended

(* C10: a label whose segmentation is empty is kept, unsplit, among the     *)
(* tokens WordSegmentation reports for its SAN.                              *)
C10_UnsegmentedLabelKept ==
    (Ran(AnalyserNames.ws) /\ Appended)
    => \A i \in 1..Len(NewOutput) :
          \A label \in Range(Split(NewOutput[i][1])) :
             (label # <<>> /\ Segment(label) = <<>>)
             => label \in Range(NewOutput[i][2])

-----------------------------------------------------------------------------
(* What the last run did to a record of any shape *)

WellFormed(rec) == Has(rec, "all_domains")

\* the ledger grew by one entry, of the analyser that ran, and kept the rest
AppendedOwnEntry ==
    /\ Appended
    /\ SubSeq(After, 1, Len(Before)) = Before
    /\ After[Len(After)].analyser = last.analyser.name

\* the words of a list of labels, left to right, stop-words left out
RECURSIVE LabelWords(_)
LabelWords(labels) ==
    IF labels = <<>> THEN <<>>
    ELSE SelectSeq(Segment(Head(labels)), LAMBDA w : w \notin STOPWORDS)
            \o LabelWords(Tail(labels))

HasEntryOf(ledger, name) ==
    \E i \in 1..Len(ledger) : ledger[i].analyser = name

(* C13: on a record without ledger, or whose ledger has no                  *)
(* AhoCorasickDomainMatching entry or no WordSegmentation entry,            *)
(* DomainMatching returns the record as it was and raises nothing.          *)
C13_NoOpWithoutBothOutputs ==
    ( /\ Ran(AnalyserNames.dm)
      /\ \/ ~last.record.has_analysers
         \/ ~HasEntryOf(Before, AnalyserNames.aho)
         \/ ~HasEntryOf(Before, AnalyserNames.ws) )
    => (record = last.record /\ ~raised)

\* DomainMatching ran on a ledger with a matcher entry and a BulkDomainMarker
\* entry but no WordSegmentation entry, and left the record as it was
C13_Witness ==
    /\ Ran(AnalyserNames.dm)
    /\ HasEntryOf(Before, AnalyserNames.aho)
    /\ HasEntryOf(Before, AnalyserNames.bulk)
    /\ ~HasEntryOf(Before, AnalyserNames.ws)
    /\ record = last.record

\* the candidate R of the match M passes the filter and the comparison of
\* the DomainMatching object that ran last
Survives(M, R) ==
    /\ Registered(M) # Registered(R)
    /\ IF last.analyser.option = "set"
       THEN ComparedWords(R, last.analyser.include_tld) \subseteq Range(Tokens(M))
       ELSE Contains(Join(Tokens(M)),
                     <<Dot>> \o Join(WordList(R, last.analyser.include_tld)))

\* the candidates of M that survive, in the order the matcher supplied them
Survivors(M) ==
    SelectSeq(DictGet(OutputOf(Before, AnalyserNames.aho), M),
              LAMBDA R : Survives(M, R))

\* the matches that have a segmentation and at least one surviving candidate
Confirmed ==
    {M \in DictKeys(OutputOf(Before, AnalyserNames.aho)) :
        /\ DictHas(OutputOf(Before, AnalyserNames.ws), M)
        /\ Survivors(M) # <<>>}

(* C14: DomainMatching appends one entry exactly when some candidate        *)
(* survives the filter and the comparison, and in it every match has the   *)
(* list of its surviving candidates in the order the matcher gave them.     *)
C14_VerdictListsSurvivors ==
    (Ran(AnalyserNames.dm) /\ ~raised)
    => IF Correlated /\ Confirmed # {}
       THEN /\ AppendedOwnEntry
            /\ DictKeys(NewOutput) = Confirmed
            /\ Len(NewOutput) = Cardinality(Confirmed)
            /\ \A M \in Confirmed : DictGet(NewOutput, M) = Survivors(M)
       ELSE record = last.record

\* a verdict with two matches, one of them with two of its four candidates
C14_Witness ==
    /\ Ran(AnalyserNames.dm) /\ ~raised
    /\ Correlated
    /\ AppendedOwnEntry
    /\ Len(NewOutput) = 2
    /\ \E M \in Confirmed :
          /\ Len(Survivors(M)) = 2
          /\ Len(DictGet(OutputOf(Before, AnalyserNames.aho), M)) = 4

(* C15: when a DomainMatching object that has just appended a verdict is    *)
(* run again on the record it returned, it appends a second entry equal to  *)
(* the first: the ledger then ends with two identical entries.              *)
C15_SecondRunDuplicates ==
    [][ ( /\ Ran(AnalyserNames.dm) /\ Appended
          /\ last'.analyser = last.analyser
          /\ last'.record = record )
        => ( /\ ~raised'
             /\ record'.analysers = Append(After, After[Len(After)]) ) ]_vars

\* the ledger ends with two equal DomainMatching entries, the second one
\* appended by the last run
C15_Witness ==
    /\ Ran(AnalyserNames.dm) /\ Appended
    /\ Len(After) >= 2
    /\ After[Len(After)].analyser = AnalyserNames.dm
    /\ After[Len(After) - 1] = After[Len(After)]

\* the record lacks a key the analyser reads: the SAN list for the three
\* analysers of the SANs, the identifier or the output of a ledger entry for
\* DomainMatching
MalformedFor(name, rec) ==
    IF name = AnalyserNames.dm
    THEN \E i \in 1..Len(rec.analysers) :
            ~Has(rec.analysers[i], "analyser") \/ ~Has(rec.analysers[i], "output")
    ELSE ~Has(rec, "all_domains")

\* the fields of a record other than its ledger
NonLedger(rec) ==
    [key \in DOMAIN rec \ {"analysers", "has_analysers"} |-> rec[key]]

(* C23: a run of any of the four analysers leaves the SAN list and every    *)
(* other field that is not the ledger as it was, and the ledger it was      *)
(* given is a prefix of the ledger it leaves.                                *)
C23_StagesOnlyAppend ==
    last.analyser.name # "none"
    => /\ NonLedger(record) = NonLedger(last.record)
       /\ Len(After) >= Len(Before)
       /\ SubSeq(After, 1, Len(Before)) = Before

\* DomainMatching has appended its verdict as the third entry of the ledger
\* of a record that has the fields of the transformer
C23_Witness ==
    /\ Ran(AnalyserNames.dm) /\ Appended
    /\ Has(record, "cert_index")
    /\ Len(Before) = 2
    /\ record.analysers[3].analyser = AnalyserNames.dm
    /\ record.all_domains = <<H_my_ted_com_evil_io>>

(* C19: an analyser run on a record that lacks a key it reads raises        *)
(* nothing and returns the record as it was given.                          *)
C19_MalformedRecordTolerated ==
    (last.analyser.name # "none" /\ MalformedFor(last.analyser.name, last.record))
    => (~raised /\ record = last.record)

-----------------------------------------------------------------------------
(* What _callback has done for the current event *)

\* the calls of one kind among the calls made, in the order they were made
CallsOf(kind, cs) == SelectSeq(cs, LAMBDA c : c[1] = kind)

\* the k-th call of the kind went to the k-th object
InOrder(kind, cs) ==
    \A k \in 1..Len(CallsOf(kind, cs)) : CallsOf(kind, cs)[k][2] = k

\* the step is a call of the kind
Calls(kind, before, after) == Len(CallsOf(kind, after)) > Len(CallsOf(kind, before))

(* C16: the analysers of a record are called one after another in the order *)
(* they were registered, each with the record the one before returned; when *)
(* the reporters are reached every analyser has been called once.           *)
C16_StagesRunInRegisteredOrder ==
    [][ /\ InOrder("analyser", calls')
        /\ pc'.at = "run" => Len(CallsOf("analyser", calls')) = pc'.i - 1
        /\ pc'.at = "publish" => Len(CallsOf("analyser", calls')) = Len(pipeline)
        /\ Calls("analyser", calls, calls')
           => LET i == Len(CallsOf("analyser", calls'))
              IN  /\ last'.analyser = AnalyserObject(pipeline[i])
                  /\ last'.record = record
                  /\ i > 1 => last.analyser = AnalyserObject(pipeline[i - 1])
      ]_vars

\* the four analysers have run on a record and the reporters are next: the
\* ledger holds the entries of the first three in the order of registration
C16_Witness ==
    /\ pc.at = "publish"
    /\ Len(CallsOf("analyser", calls)) = 4
    /\ Len(record.analysers) = 3
    /\ record.analysers[1].analyser = AnalyserNames.aho
    /\ record.analysers[2].analyser = AnalyserNames.ws
    /\ record.analysers[3].analyser = AnalyserNames.bulk

(* C17: when an analyser raises, _callback goes on with the analysers and   *)
(* reporters that remain, and the worker goes on listening.                 *)
C17_StageErrorIsContained ==
    [][ (Calls("analyser", calls, calls') /\ raised')
        => /\ pc' = AfterAnalyser(pc.i, record')
           /\ thread' = "listening" ]_vars

(* C18: when a storage or a reporter raises, _callback goes on with the     *)
(* storages, analysers and reporters that remain, and the worker goes on    *)
(* listening.                                                                *)
C18_SinkErrorIsContained ==
    [][ /\ (Calls("storage", calls, calls') /\ raised')
           => (pc' = AfterStorage(pc.i, record) /\ thread' = "listening")
        /\ (Calls("reporter", calls, calls') /\ raised')
           => (pc' = AfterReporter(pc.i) /\ thread' = "listening") ]_vars

(* C20: once stop() has returned nothing more is called for any feed event; *)
(* and the worker never ends in the middle of a record unless an exception  *)
(* ends it.                                                                  *)
C20_NothingRunsAfterStop ==
    [][ /\ caller = "returned" => (calls' = calls \/ calls' = <<>>)
        /\ (pc # Idle /\ thread' = "exited") => raised' ]_vars

\* the event is a certificate-update with at least one SAN
Processable(m) ==
    /\ m.message_type = "certificate_update"
    /\ m.data.leaf_cert.all_domains # <<>>

\* _callback returns for the event it was entered for, nothing having raised
Leaves == pc # Idle /\ pc' = Idle /\ ~raised'

\* the positions in the calls made of the calls of one kind
PositionsOf(kind, cs) == {k \in 1..Len(cs) : cs[k][1] = kind}

(* C21: a storage, an analyser or a reporter is called only for a          *)
(* certificate-update with at least one SAN, and when _callback returns for *)
(* such an event every storage has been called exactly once.                *)
C21_DroppedEventsReachNothing ==
    [][ /\ ( \/ Calls("storage", calls, calls')
             \/ Calls("analyser", calls, calls')
             \/ Calls("reporter", calls, calls') ) => Processable(message')
        /\ (Leaves /\ Processable(message))
           => CallsOf("storage", calls') =
                 [i \in 1..Len(Storages) |-> <<"storage", i>>] ]_vars

(* C22: when _callback returns for a certificate-update with at least one  *)
(* SAN, every reporter has been called exactly once, in the order of        *)
(* attachment, after every registered analyser was called, whether any      *)
(* analyser is registered or none.                                           *)
C22_ReportersGetEveryRecord ==
    [][ (Leaves /\ Processable(message))
        => /\ CallsOf("reporter", calls') =
                 [j \in 1..Len(Reporters) |-> <<"reporter", j>>]
           /\ Len(CallsOf("analyser", calls')) = Len(pipeline)
           /\ \A a \in PositionsOf("analyser", calls') :
                 \A r \in PositionsOf("reporter", calls') : a < r ]_vars

(* C28: every reference domain that DomainMatching flags against a matched *)
(* domain in order mode is flagged against it in subset mode too, on the    *)
(* same ledger and with the same include_tld.                                *)
C28_OrderStricterThanSubset ==
    (Ran(AnalyserNames.dm) /\ last.analyser.option = "list" /\ Appended)
    => LET subset == Match(DomainMatchingInit(last.analyser.include_tld, "set"),
                           OutputOf(Before, AnalyserNames.aho),
                           OutputOf(Before, AnalyserNames.ws), <<>>)
       IN  \A M \in DictKeys(NewOutput) :
              /\ DictHas(subset, M)
              /\ Range(DictGet(NewOutput, M)) \subseteq Range(DictGet(subset, M))

(* C27: when the ledger holds the output of AhoCorasickDomainMatching and   *)
(* the output of WordSegmentation, both run on the SAN list of the record,  *)
(* every key of the first is a key of the second.                           *)
C27_MatchedDomainIsSegmented ==
    ( /\ HasEntryOf(record.analysers, AnalyserNames.aho)
      /\ HasEntryOf(record.analysers, AnalyserNames.ws) )
    => DictKeys(OutputOf(record.analysers, AnalyserNames.aho))
          \subseteq DictKeys(OutputOf(record.analysers, AnalyserNames.ws))

-----------------------------------------------------------------------------
(* What the last run of a normalizer did to the SAN list *)

SansBefore == last.record.all_domains
SansAfter == record.all_domains

Normalized ==
    /\ Ran("IDNADecoder") \/ Ran("HomoglyphsDecoder")
    /\ WellFormed(last.record)

Greedy == Ran("HomoglyphsDecoder") /\ last.analyser.greedy

\* the ASCII spellings of a SAN: one character of each list of alternatives,
\* in the order _generate_alternatives yields them
Spellings(domain) ==
    LET bare == StripPrefix(domain, WildcardMarker)
        alts == GenerateAlternatives(AlternativeCharacters(bare), 0, <<>>)
    IN  [k \in 1..Len(alts) |->
           SubSeq(domain, 1, Len(domain) - Len(bare)) \o alts[k]]

\* element i of the list after is a rewritten form of element i before
RewrittenInPlace ==
    /\ Len(SansAfter) = Len(SansBefore)
    /\ \A i \in 1..Len(SansBefore) :
          IF Ran("IDNADecoder") THEN SansAfter[i] = DecodeDomain(SansBefore[i])
          ELSE SansAfter[i] \in Range(Spellings(SansBefore[i]))

\* the number of elements the SANs before the i-th have become
RECURSIVE Offset(_)
Offset(i) == IF i = 1 THEN 0 ELSE Offset(i - 1) + Len(Spellings(SansBefore[i - 1]))

(* C24: IDNADecoder and HomoglyphsDecoder, greedy or not, leave a SAN list  *)
(* of as many elements as they were given, element i being the rewritten    *)
(* form of element i.                                                        *)
C24_NormalizersKeepCount == Normalized => (~raised /\ RewrittenInPlace)

(* C24, as amended: IDNADecoder and the HomoglyphsDecoder that is not       *)
(* greedy leave as many elements as they were given, element i being the    *)
(* rewritten form of element i; the greedy HomoglyphsDecoder puts in the    *)
(* place of element i all its ASCII spellings, one at least, the first      *)
(* being what the decoder that is not greedy puts there, in the order of    *)
(* the elements, so that the list never gets shorter.                       *)
C24_NormalizersKeepOrder ==
    Normalized
    => /\ ~raised
       /\ ~Greedy => /\ RewrittenInPlace
                     /\ Ran("HomoglyphsDecoder")
                        => \A i \in 1..Len(SansBefore) :
                              SansAfter[i] = Spellings(SansBefore[i])[1]
       /\ Greedy => /\ Len(SansAfter) >= Len(SansBefore)
                    /\ Len(SansAfter) = Offset(Len(SansBefore) + 1)
                    /\ \A i \in 1..Len(SansBefore) :
                          /\ Len(Spellings(SansBefore[i])) >= 1
                          /\ \A k \in 1..Len(Spellings(SansBefore[i])) :
                                SansAfter[Offset(i) + k] = Spellings(SansBefore[i])[k]

\* the greedy decoder has made six SANs of two, four of the first and two of
\* the second
C24_Witness ==
    /\ Normalized /\ Greedy
    /\ SansBefore = <<N_mail_io, D_ted_com>>
    /\ Len(SansAfter) = 6
    /\ SansAfter[1] = N_mail_io
    /\ SansAfter[5] = D_ted_com
    /\ SansAfter[6] = Join(<<W_ted, <<"c", "o", "r", "n">>>>)

(* C25: IDNADecoder raises nothing on a record with a SAN list; a SAN that  *)
(* idna.decode fails on is left as it was, wildcard marker included, and    *)
(* the other SANs of the record are decoded all the same.                   *)
C25_UndecodableSanKept ==
    (Ran("IDNADecoder") /\ WellFormed(last.record))
    => /\ ~raised
       /\ Len(SansAfter) = Len(SansBefore)
       /\ \A i \in 1..Len(SansBefore) :
             LET bare == StripPrefix(SansBefore[i], WildcardMarker)
             IN  IF IdnaRaises(bare) THEN SansAfter[i] = SansBefore[i]
                 ELSE /\ StripPrefix(SansAfter[i], WildcardMarker) = IdnaDecode(bare)
                      /\ StartsWith(SansAfter[i], WildcardMarker)
                            = StartsWith(SansBefore[i], WildcardMarker)

\* a wildcard SAN that does not decode was kept and the SAN after it decoded
C25_Witness ==
    /\ Ran("IDNADecoder")
    /\ WellFormed(last.record)
    /\ SansBefore = <<N_star_invalid_io, N_idna>>
    /\ SansAfter = <<N_star_invalid_io, Join(<<<<"U+0436">>, <<"U+0440", "U+0444">>>>)>>

-----------------------------------------------------------------------------
(* What the report file holds *)

\* the reports published that are not empty, in the order of the calls
Published == SelectSeq(reports, LAMBDA r : ~IsEmptyReport(r))

(* C26: whatever calls of publish have been made, the lines of the report   *)
(* file are as many as the reports published that were not empty, and line  *)
(* k decodes to the k-th of them.                                            *)
C26_FileHoldsEveryReport ==
    fhandler.kind # "none"
    => /\ Len(ReadLines(report_file)) = Len(Published)
       /\ \A k \in 1..Len(ReadLines(report_file)) :
             JsonLoads(ReadLines(report_file)[k]) = Published[k]

KeysInLedger(ledger) ==
    \A i \in 1..Len(ledger) : Has(ledger[i], "analyser") /\ Has(ledger[i], "output")

(* C30: FeaturesGenerator.run, on a record whose ledger entries have their  *)
(* two keys, raises nothing and appends exactly one FeaturesGenerator entry *)
(* to the ledger, also when a domain of the WordSegmentation output has an  *)
(* empty list of tokens.                                                    *)
C30_FeaturesGeneratorAlwaysAppends ==
    (Ran(FeaturesGeneratorName) /\ KeysInLedger(Before))
        => /\ ~raised
           /\ After = Append(Before, After[Len(After)])
           /\ After[Len(After)].analyser = FeaturesGeneratorName

====
